---- MODULE Spec2Model ----
(***************************************************************************)
(* Model of src/url.rs of http_io: the Scheme classifier, the HttpUrl      *)
(* validating constructors and the HttpUrl accessors, together with the    *)
(* part of the `url` crate's Url type that url.rs calls.                   *)
(*                                                                         *)
(* A Rust String / &str is a sequence of one-character strings, so that    *)
(* lowercasing, formatting and parsing are computed and not assumed.       *)
(* Option<T> is a sequence of length at most one: None is << >> and        *)
(* Some(x) is <<x>>.  A panic (unwrap of None) is an outcome of its own.   *)
(***************************************************************************)
EXTENDS Integers, Sequences, FiniteSets

VARIABLES
    input,        \* the &str the caller holds
    parsed,       \* Option<Result<Url, ParseError>>: Url::parse(input), once called
    rFromStr,     \* Option<outcome> of HttpUrl::from_str(input)
    rTryFromStr,  \* Option<outcome> of HttpUrl::try_from(input: &str)
    rTryFromUrl,  \* Option<outcome> of HttpUrl::try_from(url: Url)
    held,         \* the HttpUrl values the caller owns (Ok results and clones)
    acc,          \* the last accessor call on a held value and what it returned
    tok,          \* the token handed to Scheme::from_str
    cls           \* Option<Result<Scheme>> returned by Scheme::from_str(tok)

vars == <<input, parsed, rFromStr, rTryFromStr, rTryFromUrl, held, acc, tok, cls>>

(***************************************************************************)
(* Bounds of the model.                                                    *)
(***************************************************************************)
\* longest scheme token handed to the classifier
MaxTokenLen == 5
\* number of HttpUrl values the caller keeps alive at once
MaxHeld == 2

(***************************************************************************)
(* Strings.                                                                *)
(***************************************************************************)
None == << >>
Some(x) == <<x>>
IsSome(o) == Len(o) = 1
Unwrapped(o) == o[1]

\* char::to_lowercase on the letters the model uses
LowerChar(c) ==
    CASE c = "H" -> "h" [] c = "T" -> "t" [] c = "P" -> "p" [] c = "S" -> "s"
      [] c = "F" -> "f" [] c = "I" -> "i" [] c = "L" -> "l" [] c = "E" -> "e"
      [] c = "W" -> "w" [] c = "X" -> "x" [] c = "D" -> "d" [] c = "R" -> "r"
      [] OTHER -> c

UpperChar(c) ==
    CASE c = "h" -> "H" [] c = "t" -> "T" [] c = "p" -> "P" [] c = "s" -> "S"
      [] c = "f" -> "F" [] c = "i" -> "I" [] c = "l" -> "L" [] c = "e" -> "E"
      [] c = "w" -> "W" [] c = "x" -> "X" [] c = "d" -> "D" [] c = "r" -> "R"
      [] OTHER -> c

\* str::to_lowercase
to_lowercase(s) == [i \in 1..Len(s) |-> LowerChar(s[i])]

s_http == <<"h","t","t","p">>
s_https == <<"h","t","t","p","s">>
s_file == <<"f","i","l","e">>
s_ftp == <<"f","t","p">>
s_ws == <<"w","s">>
s_wss == <<"w","s","s">>
s_derp == <<"d","e","r","p">>

(***************************************************************************)
(* crate::error::Error, as url.rs builds it: Error::UrlError(String).      *)
(***************************************************************************)
NoError == [variant |-> "None", msg |-> << >>]
UrlError(msg) == [variant |-> "UrlError", msg |-> msg]

s_unsupported ==
    <<"u","n","s","u","p","p","o","r","t","e","d"," ","U","R","L"," ",
      "s","c","h","e","m","e"," ">>

\* faulty variant: the message without the scheme token
error_unsupported_url_scheme_NoToken(scheme) == UrlError(s_unsupported)

\* fn error_unsupported_url_scheme: format!("unsupported URL scheme {}", scheme)
error_unsupported_url_scheme(scheme) == UrlError(s_unsupported \o scheme)

(***************************************************************************)
(* enum Scheme { Http, Https, File, Other(String) }, with derived          *)
(* PartialEq: equality of the records.                                     *)
(***************************************************************************)
Http == [tag |-> "Http", token |-> << >>]
Https == [tag |-> "Https", token |-> << >>]
File == [tag |-> "File", token |-> << >>]
Other(t) == [tag |-> "Other", token |-> t]

\* Result<Scheme>
Ok(v) == [ok |-> TRUE, val |-> v, err |-> NoError]

\* faulty variant: compares the token as given, without lowercasing it
Scheme_from_str_CaseSensitive(s) ==
    Ok(IF s = s_http THEN Http
       ELSE IF s = s_https THEN Https
       ELSE IF s = s_file THEN File
       ELSE Other(s))

\* impl str::FromStr for Scheme
Scheme_from_str(s) ==
    LET l == to_lowercase(s) IN
    Ok(IF l = s_http THEN Http
       ELSE IF l = s_https THEN Https
       ELSE IF l = s_file THEN File
       ELSE Other(l))

(***************************************************************************)
(* The `url` crate, as far as url.rs uses it: Url::parse, Url::scheme,     *)
(* Url::host_str, Url::port, Url::port_or_known_default.  A Url is the     *)
(* record of its components.                                               *)
(***************************************************************************)
NoUrl == [scheme |-> << >>, host |-> None, port |-> None, path |-> << >>]

Letters ==
    {"h","t","p","s","f","i","l","e","w","x","d","r","a","c","o","m","b","n",
     "H","T","P","S","F","I","L","E","W","X","D","R"}

IsDigit(c) == c \in {"0","1","2","3","4","5","6","7","8","9"}

DigitVal(c) ==
    CASE c = "0" -> 0 [] c = "1" -> 1 [] c = "2" -> 2 [] c = "3" -> 3
      [] c = "4" -> 4 [] c = "5" -> 5 [] c = "6" -> 6 [] c = "7" -> 7
      [] c = "8" -> 8 [] c = "9" -> 9

RECURSIVE DecVal(_)
DecVal(ds) ==
    IF ds = << >> THEN 0
    ELSE 10 * DecVal(SubSeq(ds, 1, Len(ds) - 1)) + DigitVal(ds[Len(ds)])

\* position of the first c in s, 0 when there is none
IndexOf(s, c) ==
    IF \E i \in 1..Len(s) : s[i] = c
    THEN CHOOSE i \in 1..Len(s) : s[i] = c /\ \A j \in 1..(i - 1) : s[j] # c
    ELSE 0

\* number of leading '/' of s
LeadingSlashes(s) ==
    CHOOSE n \in 0..Len(s) :
        /\ \A i \in 1..n : s[i] = "/"
        /\ (n = Len(s) \/ s[n + 1] # "/")

Drop(s, n) == SubSeq(s, n + 1, Len(s))

\* url::ParseError and its Display
ParseError_to_string(e) ==
    CASE e = "RelativeUrlWithoutBase" ->
            <<"r","e","l","a","t","i","v","e"," ","U","R","L"," ",
              "w","i","t","h","o","u","t"," ","a"," ","b","a","s","e">>
      [] e = "EmptyHost" -> <<"e","m","p","t","y"," ","h","o","s","t">>
      [] e = "InvalidDomainCharacter" ->
            <<"i","n","v","a","l","i","d"," ","d","o","m","a","i","n"," ",
              "c","h","a","r","a","c","t","e","r">>
      [] e = "InvalidPort" ->
            <<"i","n","v","a","l","i","d"," ","p","o","r","t"," ",
              "n","u","m","b","e","r">>

\* the Debug rendering of a url::ParseError: the name of the variant
ParseError_debug(e) ==
    CASE e = "RelativeUrlWithoutBase" ->
            <<"R","e","l","a","t","i","v","e","U","r","l",
              "W","i","t","h","o","u","t","B","a","s","e">>
      [] e = "EmptyHost" -> <<"E","m","p","t","y","H","o","s","t">>
      [] e = "InvalidDomainCharacter" ->
            <<"I","n","v","a","l","i","d","D","o","m","a","i","n",
              "C","h","a","r","a","c","t","e","r">>
      [] e = "InvalidPort" -> <<"I","n","v","a","l","i","d","P","o","r","t">>

ParseOk(u) == [ok |-> TRUE, val |-> u, err |-> "None"]
ParseErr(e) == [ok |-> FALSE, val |-> NoUrl, err |-> e]

\* the schemes for which the url crate requires an authority with a host
IsSpecialNotFile(scheme) == scheme \in {s_http, s_https, s_ws, s_wss, s_ftp}

\* the well-known port of a scheme, None when it has none
DefaultPort(scheme) ==
    IF scheme \in {s_http, s_ws} THEN Some(80)
    ELSE IF scheme \in {s_https, s_wss} THEN Some(443)
    ELSE IF scheme = s_ftp THEN Some(21)
    ELSE None

\* host[:port] of an authority; http, https, ws, wss and ftp require a host,
\* a file host takes no port
ParseAuthority(scheme, auth, path) ==
    LET hostRequired == IsSpecialNotFile(scheme)
        ci == IndexOf(auth, ":")
        hostS == IF ci = 0 THEN auth ELSE SubSeq(auth, 1, ci - 1)
        portS == IF ci = 0 THEN << >> ELSE Drop(auth, ci)
        portV == DecVal(portS)
    IN  IF hostRequired /\ hostS = << >> THEN ParseErr("EmptyHost")
        ELSE IF scheme = s_file /\ ci # 0 THEN ParseErr("InvalidDomainCharacter")
        ELSE IF \E i \in 1..Len(portS) : ~IsDigit(portS[i]) THEN ParseErr("InvalidPort")
        ELSE IF portV > 65535 THEN ParseErr("InvalidPort")
        ELSE IF hostS = << >> /\ portS # << >> THEN ParseErr("EmptyHost")
        ELSE ParseOk([scheme |-> scheme,
                      host |-> IF hostS = << >> THEN None ELSE Some(hostS),
                      port |-> IF portS = << >> \/ Some(portV) = DefaultPort(scheme)
                               THEN None ELSE Some(portV),
                      path |-> path])

\* Url::parse: scheme ":" then, for a hierarchical URL, "//" authority path
Url_parse(s) ==
    LET colon == IndexOf(s, ":")
        raw == SubSeq(s, 1, colon - 1)
    IN  IF colon <= 1 \/ \E i \in 1..Len(raw) : raw[i] \notin Letters
        THEN ParseErr("RelativeUrlWithoutBase")
        ELSE
        LET scheme == to_lowercase(raw)
            rest == Drop(s, colon)
            n == LeadingSlashes(rest)
        IN  IF IsSpecialNotFile(scheme)
            THEN LET after == Drop(rest, n)
                     sl == IndexOf(after, "/")
                     auth == IF sl = 0 THEN after ELSE SubSeq(after, 1, sl - 1)
                     path == IF sl = 0 THEN <<"/">> ELSE Drop(after, sl - 1)
                 IN  ParseAuthority(scheme, auth, path)
            ELSE IF n >= 2
            THEN LET after == Drop(rest, 2)
                     sl == IndexOf(after, "/")
                     auth == IF sl = 0 THEN after ELSE SubSeq(after, 1, sl - 1)
                     path == IF sl = 0
                             THEN (IF scheme = s_file THEN <<"/">> ELSE << >>)
                             ELSE Drop(after, sl - 1)
                 IN  ParseAuthority(scheme, auth, path)
            ELSE ParseOk([scheme |-> scheme, host |-> None, port |-> None,
                          path |-> rest])

\* Url::scheme: the scheme, lowercased by the parser
Url_scheme(u) == u.scheme

\* Url::host_str
Url_host_str(u) == u.host

\* Url::port
Url_port(u) == u.port

\* Url::port_or_known_default
Url_port_or_known_default(u) ==
    IF IsSome(u.port) THEN u.port ELSE DefaultPort(u.scheme)

(***************************************************************************)
(* struct HttpUrl { url, scheme, host } and its constructors.  An outcome  *)
(* is what a call ends with: Ok(HttpUrl), Err(Error) or a panic, and the   *)
(* calls it made on the way, in order.                                     *)
(***************************************************************************)
NoHttpUrl == [url |-> NoUrl, scheme |-> Other(<< >>), host |-> << >>]

OutOk(h, trace) == [kind |-> "Ok", val |-> h, err |-> NoError, trace |-> trace]
OutErr(e, trace) == [kind |-> "Err", val |-> NoHttpUrl, err |-> e, trace |-> trace]
OutPanic(trace) == [kind |-> "Panic", val |-> NoHttpUrl, err |-> NoError, trace |-> trace]

\* faulty variant: no rejection of a scheme other than Http and Https
HttpUrl_try_from_NoSchemeCheck(url) ==
    LET scheme == Scheme_from_str(Url_scheme(url)) IN
    IF ~scheme.ok THEN OutErr(scheme.err, <<"Scheme::from_str">>)
    ELSE LET host == Url_host_str(url) IN
         IF ~IsSome(host)
         THEN OutPanic(<<"Scheme::from_str", "Url::host_str", "unwrap">>)
         ELSE OutOk([url |-> url, scheme |-> scheme.val, host |-> Unwrapped(host)],
                    <<"Scheme::from_str", "Url::host_str", "unwrap">>)

\* faulty variant: only the File scheme is rejected
HttpUrl_try_from_RejectsOnlyFile(url) ==
    LET scheme == Scheme_from_str(Url_scheme(url)) IN
    IF ~scheme.ok THEN OutErr(scheme.err, <<"Scheme::from_str">>)
    ELSE IF scheme.val = File
    THEN OutErr(error_unsupported_url_scheme(Url_scheme(url)),
                <<"Scheme::from_str", "error_unsupported_url_scheme">>)
    ELSE LET host == Url_host_str(url) IN
         IF ~IsSome(host)
         THEN OutPanic(<<"Scheme::from_str", "Url::host_str", "unwrap">>)
         ELSE OutOk([url |-> url, scheme |-> scheme.val, host |-> Unwrapped(host)],
                    <<"Scheme::from_str", "Url::host_str", "unwrap">>)

\* faulty variant: lenient, no rejection of a scheme and host_str().unwrap_or("")
HttpUrl_try_from_Lenient(url) ==
    LET scheme == Scheme_from_str(Url_scheme(url)) IN
    IF ~scheme.ok THEN OutErr(scheme.err, <<"Scheme::from_str">>)
    ELSE LET host == Url_host_str(url) IN
         OutOk([url |-> url, scheme |-> scheme.val,
                host |-> IF IsSome(host) THEN Unwrapped(host) ELSE << >>],
               <<"Scheme::from_str", "Url::host_str", "unwrap_or">>)

\* faulty variant: the host is unwrapped before the scheme is checked
HttpUrl_try_from_HostFirst(url) ==
    LET scheme == Scheme_from_str(Url_scheme(url))
        host == Url_host_str(url) IN
    IF ~scheme.ok THEN OutErr(scheme.err, <<"Scheme::from_str">>)
    ELSE IF ~IsSome(host)
    THEN OutPanic(<<"Scheme::from_str", "Url::host_str", "unwrap">>)
    ELSE IF scheme.val # Http /\ scheme.val # Https
    THEN OutErr(error_unsupported_url_scheme(Url_scheme(url)),
                <<"Scheme::from_str", "Url::host_str", "unwrap",
                  "error_unsupported_url_scheme">>)
    ELSE OutOk([url |-> url, scheme |-> scheme.val, host |-> Unwrapped(host)],
               <<"Scheme::from_str", "Url::host_str", "unwrap">>)

\* faulty variant: the retained Url loses its explicit port
HttpUrl_try_from_DropsPort(url) ==
    LET scheme == Scheme_from_str(Url_scheme(url)) IN
    IF ~scheme.ok THEN OutErr(scheme.err, <<"Scheme::from_str">>)
    ELSE IF scheme.val # Http /\ scheme.val # Https
    THEN OutErr(error_unsupported_url_scheme(Url_scheme(url)),
                <<"Scheme::from_str", "error_unsupported_url_scheme">>)
    ELSE LET host == Url_host_str(url) IN
         IF ~IsSome(host)
         THEN OutPanic(<<"Scheme::from_str", "Url::host_str", "unwrap">>)
         ELSE OutOk([url |-> [url EXCEPT !.port = None], scheme |-> scheme.val,
                     host |-> Unwrapped(host)],
                    <<"Scheme::from_str", "Url::host_str", "unwrap">>)

\* impl TryFrom<Url> for HttpUrl
HttpUrl_try_from(url) ==
    LET scheme == Scheme_from_str(Url_scheme(url)) IN
    IF ~scheme.ok THEN OutErr(scheme.err, <<"Scheme::from_str">>)
    ELSE IF scheme.val # Http /\ scheme.val # Https
    THEN OutErr(error_unsupported_url_scheme(Url_scheme(url)),
                <<"Scheme::from_str", "error_unsupported_url_scheme">>)
    ELSE LET host == Url_host_str(url) IN
         IF ~IsSome(host)
         THEN OutPanic(<<"Scheme::from_str", "Url::host_str", "unwrap">>)
         ELSE OutOk([url |-> url, scheme |-> scheme.val, host |-> Unwrapped(host)],
                    <<"Scheme::from_str", "Url::host_str", "unwrap">>)

\* faulty variant: the parser's error rendered with {:?} instead of to_string()
HttpUrl_from_str_DebugMessage(s) ==
    LET url == Url_parse(s) IN
    IF ~url.ok
    THEN OutErr(UrlError(ParseError_debug(url.err)), <<"Url::parse">>)
    ELSE LET r == HttpUrl_try_from(url.val) IN
         [r EXCEPT !.trace = <<"Url::parse", "HttpUrl::try_from">> \o @]

\* impl str::FromStr for HttpUrl
HttpUrl_from_str(s) ==
    LET url == Url_parse(s) IN
    IF ~url.ok
    THEN OutErr(UrlError(ParseError_to_string(url.err)), <<"Url::parse">>)
    ELSE LET r == HttpUrl_try_from(url.val) IN
         [r EXCEPT !.trace = <<"Url::parse", "HttpUrl::try_from">> \o @]

\* impl TryFrom<&str> for HttpUrl: value.parse()
HttpUrl_try_from_str(value) ==
    LET r == HttpUrl_from_str(value) IN
    [r EXCEPT !.trace = <<"str::parse">> \o @]

(***************************************************************************)
(* impl HttpUrl: the accessors.                                            *)
(***************************************************************************)
Returned(v) == [kind |-> "Value", val |-> v]
Panicked == [kind |-> "Panic", val |-> << >>]

\* faulty variant: self.url.port().unwrap_or(80)
HttpUrl_port_Or80(h) ==
    LET p == Url_port(h.url) IN
    IF IsSome(p) THEN Returned(Unwrapped(p)) ELSE Returned(80)

\* HttpUrl::port: self.url.port_or_known_default().unwrap()
HttpUrl_port(h) ==
    LET p == Url_port_or_known_default(h.url) IN
    IF IsSome(p) THEN Returned(Unwrapped(p)) ELSE Panicked

\* HttpUrl::scheme: self.scheme.clone()
HttpUrl_scheme(h) == Returned(h.scheme)

\* HttpUrl::host: &self.host
HttpUrl_host(h) == Returned(h.host)

\* HttpUrl::url: &self.url
HttpUrl_url(h) == Returned(h.url)

\* #[derive(Clone)] for HttpUrl
HttpUrl_clone(h) == [url |-> h.url, scheme |-> h.scheme, host |-> h.host]

(***************************************************************************)
(* The strings and tokens the calls are made on.                           *)
(***************************************************************************)
SchemeParts ==
    {s_http, <<"H","T","T","P">>, s_https, <<"H","t","t","p","S">>,
     s_file, <<"F","i","l","e">>, s_ftp, s_ws, s_wss, s_derp}
SepParts == {<<":","/","/">>, <<":">>}
HostParts == {<< >>, <<"a",".","c","o","m">>}
PortParts == {<< >>, <<":","8","0">>, <<":","4","4","3">>,
              <<":","9","0","9","0">>, <<":","x">>}
PathParts == {<< >>, <<"/","b">>}
Malformed == {<< >>, <<"n","o","t"," ","a">>, <<"/","/","a",".","c","o","m">>}

Inputs ==
    { sc \o sep \o h \o p \o pa :
        sc \in SchemeParts, sep \in SepParts, h \in HostParts,
        p \in PortParts, pa \in PathParts } \cup Malformed

\* every way of writing the first n letters of w in upper and lower case
CaseVariants(w, n) ==
    { [i \in 1..n |-> IF up[i] THEN UpperChar(w[i]) ELSE w[i]] :
        up \in [1..n -> BOOLEAN] }

TokenWords == {s_https \o <<"x">>, s_file \o <<"s","x">>, s_ftp, s_wss, s_derp}

Tokens ==
    UNION { UNION { CaseVariants(w, n) :
                      n \in {k \in 0..MaxTokenLen : k <= Len(w)} } :
              w \in TokenWords }

(***************************************************************************)
(* The caller.  It holds one string, may parse it into a Url, may hand the *)
(* string or the Url to each constructor once, keeps the HttpUrl values it *)
(* got (with the Url each was built from), clones and drops them and calls *)
(* their accessors.                                                        *)
(***************************************************************************)
NoCall == [op |-> "none", on |-> NoHttpUrl, out |-> Panicked]

Init ==
    /\ input \in Inputs
    /\ parsed = None
    /\ rFromStr = None
    /\ rTryFromStr = None
    /\ rTryFromUrl = None
    /\ held = << >>
    /\ acc = NoCall
    /\ tok = << >>
    /\ cls = None

\* the caller keeps an Ok value, together with the Url it was built from
Keep(out, from, via) ==
    IF out.kind = "Ok"
    THEN Append(held, [h |-> out.val, from |-> from, via |-> via])
    ELSE held

\* let url = Url::parse(input)
CallUrlParse ==
    /\ parsed = None
    /\ parsed' = Some(Url_parse(input))
    /\ UNCHANGED <<input, rFromStr, rTryFromStr, rTryFromUrl, held, acc, tok, cls>>

\* HttpUrl::from_str(input)
CallFromStr ==
    /\ rFromStr = None
    /\ Len(held) < MaxHeld
    /\ LET out == HttpUrl_from_str(input) IN
       /\ rFromStr' = Some([arg |-> input, out |-> out])
       /\ held' = Keep(out, Url_parse(input).val, "from_str")
    /\ UNCHANGED <<input, parsed, rTryFromStr, rTryFromUrl, acc, tok, cls>>

\* HttpUrl::try_from(input)
CallTryFromStr ==
    /\ rTryFromStr = None
    /\ Len(held) < MaxHeld
    /\ LET out == HttpUrl_try_from_str(input) IN
       /\ rTryFromStr' = Some([arg |-> input, out |-> out])
       /\ held' = Keep(out, Url_parse(input).val, "try_from_str")
    /\ UNCHANGED <<input, parsed, rFromStr, rTryFromUrl, acc, tok, cls>>

\* HttpUrl::try_from(url), on the Url the caller parsed
CallTryFromUrl ==
    /\ rTryFromUrl = None
    /\ IsSome(parsed)
    /\ Unwrapped(parsed).ok
    /\ Len(held) < MaxHeld
    /\ LET url == Unwrapped(parsed).val
           out == HttpUrl_try_from(url) IN
       /\ rTryFromUrl' = Some([arg |-> url, out |-> out])
       /\ held' = Keep(out, url, "try_from_url")
    /\ UNCHANGED <<input, parsed, rFromStr, rTryFromStr, acc, tok, cls>>

CallPort(i) ==
    /\ acc' = [op |-> "port", on |-> held[i].h, out |-> HttpUrl_port(held[i].h)]
    /\ UNCHANGED <<input, parsed, rFromStr, rTryFromStr, rTryFromUrl, held, tok, cls>>

CallScheme(i) ==
    /\ acc' = [op |-> "scheme", on |-> held[i].h, out |-> HttpUrl_scheme(held[i].h)]
    /\ UNCHANGED <<input, parsed, rFromStr, rTryFromStr, rTryFromUrl, held, tok, cls>>

CallHost(i) ==
    /\ acc' = [op |-> "host", on |-> held[i].h, out |-> HttpUrl_host(held[i].h)]
    /\ UNCHANGED <<input, parsed, rFromStr, rTryFromStr, rTryFromUrl, held, tok, cls>>

CallUrl(i) ==
    /\ acc' = [op |-> "url", on |-> held[i].h, out |-> HttpUrl_url(held[i].h)]
    /\ UNCHANGED <<input, parsed, rFromStr, rTryFromStr, rTryFromUrl, held, tok, cls>>

\* let copy = held[i].clone()
CallClone(i) ==
    /\ Len(held) < MaxHeld
    /\ held' = Append(held, [h |-> HttpUrl_clone(held[i].h),
                              from |-> held[i].from, via |-> "clone"])
    /\ UNCHANGED <<input, parsed, rFromStr, rTryFromStr, rTryFromUrl, acc, tok, cls>>

\* the value held last goes out of scope
DropLast ==
    /\ held # << >>
    /\ held' = SubSeq(held, 1, Len(held) - 1)
    /\ UNCHANGED <<input, parsed, rFromStr, rTryFromStr, rTryFromUrl, acc, tok, cls>>

Next ==
    \/ CallUrlParse
    \/ CallFromStr
    \/ CallTryFromStr
    \/ CallTryFromUrl
    \/ \E i \in 1..Len(held) : CallPort(i)
    \/ \E i \in 1..Len(held) : CallScheme(i)
    \/ \E i \in 1..Len(held) : CallHost(i)
    \/ \E i \in 1..Len(held) : CallUrl(i)
    \/ \E i \in 1..Len(held) : CallClone(i)
    \/ DropLast

Spec == Init /\ [][Next]_vars

(***************************************************************************)
(* The classifier alone, on every token.                                   *)
(***************************************************************************)
InitScheme ==
    /\ tok \in Tokens
    /\ cls = None
    /\ input = << >>
    /\ parsed = None
    /\ rFromStr = None
    /\ rTryFromStr = None
    /\ rTryFromUrl = None
    /\ held = << >>
    /\ acc = NoCall

\* Scheme::from_str(tok)
CallSchemeFromStr ==
    /\ cls = None
    /\ cls' = Some(Scheme_from_str(tok))
    /\ UNCHANGED <<input, parsed, rFromStr, rTryFromStr, rTryFromUrl, held, acc, tok>>

NextScheme == CallSchemeFromStr

SpecScheme == InitScheme /\ [][NextScheme]_vars

(***************************************************************************)
(* The caller of Spec, who can also hand the validator a Url whose host    *)
(* was forcibly cleared or emptied: a Url the url crate does not build.    *)
(***************************************************************************)
ForceHost ==
    /\ IsSome(parsed)
    /\ Unwrapped(parsed).ok
    /\ rTryFromUrl = None
    /\ \E host \in {None, Some(<< >>)} :
         /\ Unwrapped(parsed).val.host # host
         /\ parsed' = Some([Unwrapped(parsed) EXCEPT !.val.host = host])
    /\ UNCHANGED <<input, rFromStr, rTryFromStr, rTryFromUrl, held, acc, tok, cls>>

NextForced ==
    \/ Next
    \/ ForceHost

SpecForced == Init /\ [][NextForced]_vars

(***************************************************************************)
(* The properties.                                                         *)
(***************************************************************************)
\* the constructor calls made so far: [arg, out]
Calls == { Unwrapped(r) : r \in {x \in {rFromStr, rTryFromStr, rTryFromUrl} : IsSome(x)} }

\* two outcomes are the same result: the same Ok value or the same error
SameResult(a, b) == a.kind = b.kind /\ a.val = b.val /\ a.err = b.err

Contains(trace, step) == \E i \in 1..Len(trace) : trace[i] = step

\* C1: every HttpUrl a constructor returns in Ok, and every HttpUrl held, has
\* scheme() equal to Http or Https, never File or Other.
C1_SchemeInvariant ==
    /\ \A c \in Calls :
         c.out.kind = "Ok" => HttpUrl_scheme(c.out.val).val \in {Http, Https}
    /\ \A i \in 1..Len(held) : HttpUrl_scheme(held[i].h).val \in {Http, Https}

\* try_from(Url) was handed a parsed Url and returned Ok with scheme Https
C1_Witness ==
    /\ IsSome(rTryFromUrl)
    /\ Unwrapped(rTryFromUrl).out.kind = "Ok"
    /\ Unwrapped(rTryFromUrl).out.val.scheme = Https

\* C2: port() on a constructed HttpUrl returns a value (no panic): the Url's
\* explicit port when it has one, else 80 for Http and 443 for Https.
C2_PortResolution ==
    acc.op = "port" =>
        /\ acc.out.kind = "Value"
        /\ LET explicit == Url_port(acc.on.url) IN
           /\ IsSome(explicit) => acc.out.val = Unwrapped(explicit)
           /\ ~IsSome(explicit) /\ acc.on.scheme = Http => acc.out.val = 80
           /\ ~IsSome(explicit) /\ acc.on.scheme = Https => acc.out.val = 443
           /\ acc.on.scheme \in {Http, Https}

\* port() was called on an Https value whose Url has no explicit port
C2_Witness ==
    /\ acc.op = "port"
    /\ acc.on.scheme = Https
    /\ ~IsSome(Url_port(acc.on.url))
    /\ acc.out.kind = "Value"

\* C3: try_from(Url) on a Url whose scheme is not http or https returns Err of
\* the URL error kind with message "unsupported URL scheme <token>", the token
\* being the Url's (lowercase) scheme, and no HttpUrl.
C3_UnsupportedScheme ==
    IsSome(rTryFromUrl) =>
        LET c == Unwrapped(rTryFromUrl) IN
        Url_scheme(c.arg) \notin {s_http, s_https} =>
            /\ c.out.kind = "Err"
            /\ c.out.val = NoHttpUrl
            /\ c.out.err.variant = "UrlError"
            /\ c.out.err.msg = s_unsupported \o Url_scheme(c.arg)
            /\ Url_scheme(c.arg) = to_lowercase(Url_scheme(c.arg))
            /\ \A i \in 1..Len(held) : held[i].via # "try_from_url"

\* try_from(Url) was called on a Url of scheme file that was written "File"
C3_Witness ==
    /\ IsSome(rTryFromUrl)
    /\ Url_scheme(Unwrapped(rTryFromUrl).arg) = s_file
    /\ SubSeq(input, 1, 4) = <<"F","i","l","e">>
    /\ Unwrapped(rTryFromUrl).out.kind = "Err"

\* C4: try_from(Url) on a Url of scheme http or https whose host is absent or
\* empty returns a MissingHost error, without unwrap, panic or HttpUrl.
C4_MissingHostIsAnError ==
    IsSome(rTryFromUrl) =>
        LET c == Unwrapped(rTryFromUrl) IN
        (/\ Url_scheme(c.arg) \in {s_http, s_https}
         /\ Url_host_str(c.arg) \in {None, Some(<< >>)}) =>
            /\ c.out.kind = "Err"
            /\ c.out.err.variant = "MissingHost"
            /\ ~Contains(c.out.trace, "unwrap")

\* C5: from_str calls the parser first; when the parser rejects the string the
\* result is Err(UrlError(the parser's message, unmodified)) and try_from(Url)
\* is not called; when it accepts, the result is that of try_from(Url) on the
\* parsed Url.  try_from(&str) returns the same result as from_str.
C5_ParseComposition ==
    /\ IsSome(rFromStr) =>
         LET out == Unwrapped(rFromStr).out IN
         /\ out.trace[1] = "Url::parse"
         /\ IsSome(parsed) /\ ~Unwrapped(parsed).ok =>
              /\ out.kind = "Err"
              /\ out.err = UrlError(ParseError_to_string(Unwrapped(parsed).err))
              /\ ~Contains(out.trace, "HttpUrl::try_from")
         /\ IsSome(parsed) /\ Unwrapped(parsed).ok =>
              /\ Contains(out.trace, "HttpUrl::try_from")
              /\ IsSome(rTryFromUrl) => SameResult(out, Unwrapped(rTryFromUrl).out)
    /\ IsSome(rFromStr) /\ IsSome(rTryFromStr) =>
         SameResult(Unwrapped(rFromStr).out, Unwrapped(rTryFromStr).out)

\* the parser rejected the string, and from_str and try_from(&str) were called
C5_Witness ==
    /\ IsSome(parsed) /\ ~Unwrapped(parsed).ok
    /\ IsSome(rFromStr)
    /\ IsSome(rTryFromStr)

\* C6: Scheme::from_str returns Ok for every token; Http, Https or File exactly
\* when the lowercased token is "http", "https" or "file", else Other(the
\* lowercased token); tokens that differ only in case classify alike.
C6_Classifier ==
    IsSome(cls) =>
        LET r == Unwrapped(cls)
            l == to_lowercase(tok) IN
        /\ r.ok
        /\ r.val = Http <=> l = s_http
        /\ r.val = Https <=> l = s_https
        /\ r.val = File <=> l = s_file
        /\ l \notin {s_http, s_https, s_file} => r.val = Other(l)
        /\ r.val \notin {Other(s_http), Other(s_https), Other(s_file)}
        /\ \A t \in Tokens :
             to_lowercase(t) = l => Scheme_from_str(t).val = r.val

\* the classifier was called on a spelling of "https" with an upper-case letter
C6_Witness ==
    /\ IsSome(cls)
    /\ tok # to_lowercase(tok)
    /\ to_lowercase(tok) = s_https

\* C7: every HttpUrl a constructor returns in Ok, and every HttpUrl held, has
\* a non-empty host().
C7_HostInvariant ==
    /\ \A c \in Calls :
         c.out.kind = "Ok" => HttpUrl_host(c.out.val).val # << >>
    /\ \A i \in 1..Len(held) : HttpUrl_host(held[i].h).val # << >>

\* every constructor was called and returned Ok
C7_Witness ==
    /\ IsSome(rFromStr) /\ IsSome(rTryFromStr) /\ IsSome(rTryFromUrl)
    /\ \A c \in Calls : c.out.kind = "Ok"

\* C8: from_str and try_from(&str) on any string, the validator on the Url
\* parsed from it, and the accessors on a returned value end without panic:
\* the constructors with Ok or Err.
C8_NoPanic ==
    /\ \A c \in Calls : c.out.kind \in {"Ok", "Err"}
    /\ acc.op # "none" => acc.out.kind = "Value"

\* from_str and try_from(&str) were called on a string the parser accepts
\* whose Url has no host, and ended with Err
C8_Witness ==
    /\ IsSome(rFromStr)
    /\ Url_parse(input).ok
    /\ Url_host_str(Url_parse(input).val) = None
    /\ Unwrapped(rFromStr).out.kind = "Err"
    /\ IsSome(rTryFromStr)
    /\ Unwrapped(rTryFromStr).out.kind = "Err"

\* C9: try_from(Url) on a Url with an unsupported scheme and no host returns
\* the unsupported-scheme error and never reaches the host: no panic.
C9_SchemeBeforeHost ==
    IsSome(rTryFromUrl) =>
        LET c == Unwrapped(rTryFromUrl) IN
        (/\ Url_scheme(c.arg) \notin {s_http, s_https}
         /\ Url_host_str(c.arg) = None) =>
            /\ c.out.kind = "Err"
            /\ c.out.err = UrlError(s_unsupported \o Url_scheme(c.arg))
            /\ ~Contains(c.out.trace, "Url::host_str")
            /\ ~Contains(c.out.trace, "unwrap")

\* try_from(Url) was called on the Url of "file:///b": scheme file, no host
C9_Witness ==
    /\ IsSome(rTryFromUrl)
    /\ input = <<"f","i","l","e",":","/","/","/","b">>
    /\ Url_host_str(Unwrapped(rTryFromUrl).arg) = None

\* C10: every HttpUrl held, however obtained and whatever was called since,
\* retains the Url it was built from unchanged, its scheme is the
\* classification of that Url's scheme and its host is that Url's host_str.
C10_FieldsAgree ==
    \A i \in 1..Len(held) :
        LET h == held[i].h IN
        /\ HttpUrl_url(h).val = held[i].from
        /\ HttpUrl_scheme(h).val = Scheme_from_str(Url_scheme(HttpUrl_url(h).val)).val
        /\ Some(HttpUrl_host(h).val) = Url_host_str(HttpUrl_url(h).val)

\* a clone of a value built from a Url with an explicit port is held, and an
\* accessor was called
C10_Witness ==
    /\ Len(held) = 2
    /\ held[2].via = "clone"
    /\ IsSome(Url_port(held[2].from))
    /\ acc.op = "host"

====
